---- MODULE Spec2Model ----
(***************************************************************************)
(* A model of FulcrumBot's command handler (src/bot.py, class BotHandler): *)
(* the argument validator, the session cooldown gate, the docker daemon    *)
(* poller, the container locator and the temporary volume provisioner.     *)
(*                                                                         *)
(* Text is modelled as sequences of one-character strings, so that the     *)
(* regular expressions and conversions of the source are computed          *)
(* character by character.                                                 *)
(***************************************************************************)
EXTENDS Integers, Sequences, FiniteSets, TLC

VARIABLES
    \* ---- configuration of the process (PARSED, CONFIG, BOT_SETTINGS) ----
    mock,            \* PARSED.mock
    ldd,             \* PARSED.ldd
    maxchecks,       \* CONFIG['DOCKER_DAEMON_MAXCHECKS']
    threshold,       \* BotHandler._threshold_between_restarts
    \* ---- state of the BotHandler ----
    session,         \* self._session: [active, start]
    daemon_checked,  \* self._daemon_checked
    tmpdir,          \* names in MCSERVER_TMP_VOLUME_LOCATION/tmp
    \* ---- the event loop and its start invocations ----
    clock,           \* wall clock; a message's created_at is the clock at its arrival
    cur,             \* the invocation that holds the event loop (0: none)
    task,            \* per invocation: its position and local variables
    \* ---- inputs and results of the pure functions, applied on their own ----
    vargs,           \* _validate_usr_args: the tokens
    vres,            \* _validate_usr_args: the result
    lraw,            \* _parse_dockerps: the docker ps text
    lres,            \* _parse_dockerps: the result
    pdir,            \* provisioner: os.listdir(tmp_dir)
    pres             \* provisioner: the result

vars == <<mock, ldd, maxchecks, threshold, session, daemon_checked, tmpdir,
          clock, cur, task, vargs, vres, lraw, lres, pdir, pres>>

procVars == <<mock, ldd, maxchecks, threshold, session, daemon_checked, tmpdir,
              clock, cur, task>>
valVars == <<vargs, vres>>
locVars == <<lraw, lres>>
provVars == <<pdir, pres>>
pureVars == <<vargs, vres, lraw, lres, pdir, pres>>

-----------------------------------------------------------------------------
(* Characters and strings                                                  *)

Digits == {"0", "1", "2", "3", "4", "5", "6", "7", "8", "9"}
Lower == {"a", "b", "c", "d", "e", "f", "g", "h", "i", "j", "k", "l", "m",
          "n", "o", "p", "q", "r", "s", "t", "u", "v", "w", "x", "y", "z"}
Upper == {"A", "B", "C", "D", "E", "F", "G", "H", "I", "J", "K", "L", "M",
          "N", "O", "P", "Q", "R", "S", "T", "U", "V", "W", "X", "Y", "Z"}
Punct == {"-", ".", "*", "~", "_", "!", "\\", " ", "\n"}
\* a code point above 127 is written U+xxxx and stands for one character
NonAscii == {"U+00E9"}

\* str.isascii() of one character
IsAscii(ch) == ch \in Digits \cup Lower \cup Upper \cup Punct
\* str.isdigit() / str.isalpha() of one ASCII character
IsDigit(ch) == ch \in Digits
IsAlphaCh(ch) == ch \in Lower \cup Upper \cup NonAscii

\* c * n
Rep(c, n) == [i \in 1..n |-> c]

\* s[k:]
Drop(s, k) == IF k >= Len(s) THEN <<>> ELSE SubSeq(s, k + 1, Len(s))

\* s.startswith(p)
StartsWith(s, p) == Len(s) >= Len(p) /\ SubSeq(s, 1, Len(p)) = p

\* s.count(ch)
Count(s, ch) == Cardinality({i \in 1..Len(s) : s[i] = ch})

\* s.replace(ch, '')
Remove(s, ch) == SelectSeq(s, LAMBDA x : x # ch)

\* str.isdigit(): non-empty and every character a digit
IsDigitStr(s) == Len(s) > 0 /\ \A i \in 1..Len(s) : IsDigit(s[i])

\* str.isalpha(): non-empty and every character alphabetic
IsAlpha(s) == Len(s) > 0 /\ \A i \in 1..Len(s) : IsAlphaCh(s[i])

DigitVal(ch) ==
    CASE ch = "0" -> 0 [] ch = "1" -> 1 [] ch = "2" -> 2 [] ch = "3" -> 3
      [] ch = "4" -> 4 [] ch = "5" -> 5 [] ch = "6" -> 6 [] ch = "7" -> 7
      [] ch = "8" -> 8 [] ch = "9" -> 9

DigitCh(d) ==
    CASE d = 0 -> "0" [] d = 1 -> "1" [] d = 2 -> "2" [] d = 3 -> "3"
      [] d = 4 -> "4" [] d = 5 -> "5" [] d = 6 -> "6" [] d = 7 -> "7"
      [] d = 8 -> "8" [] d = 9 -> "9"

\* int(s) of a digit string
RECURSIVE ParseInt(_)
ParseInt(s) ==
    IF Len(s) = 0 THEN 0
    ELSE 10 * ParseInt(SubSeq(s, 1, Len(s) - 1)) + DigitVal(s[Len(s)])

\* str(n) of a natural number
RECURSIVE FormatInt(_)
FormatInt(n) ==
    IF n < 10 THEN <<DigitCh(n)>>
    ELSE Append(FormatInt(n \div 10), DigitCh(n % 10))

\* sum([len(a) for a in args[:k]])
RECURSIVE SumLen(_, _)
SumLen(args, k) == IF k = 0 THEN 0 ELSE SumLen(args, k - 1) + Len(args[k])

-----------------------------------------------------------------------------
(* The argument validator: BotHandler._validate_usr_args and its helpers   *)

MAX_ARG_WRD_SZ == 128

\* BotHandler.StartArgs.model_fields: keyed by field name, not by alias
StartArgs ==
    [name \in {<<"a", "l", "l", "o", "c">>, <<"t", "m", "p">>} |->
        IF name = <<"t", "m", "p">>
        THEN [annotation |-> "bool", default_is_int |-> TRUE, default |-> 0]
        ELSE [annotation |-> "float", default_is_int |-> FALSE, default |-> 0]]

\* arg.replace('*', '\*').replace('~', '\~').replace('_', '\_'), over the
\* characters lo..hi of arg (halved, to keep the evaluation shallow)
RECURSIVE EscapeRange(_, _, _)
EscapeRange(arg, lo, hi) ==
    IF lo > hi THEN <<>>
    ELSE IF lo = hi
    THEN (IF arg[lo] \in {"*", "~", "_"} THEN <<"\\", arg[lo]>> ELSE <<arg[lo]>>)
    ELSE LET mid == (lo + hi) \div 2
         IN  EscapeRange(arg, lo, mid) \o EscapeRange(arg, mid + 1, hi)

remove_formatting_from_arg(arg) == EscapeRange(arg, 1, Len(arg))

\* arg.count('-') <= 1 and arg.count('.') <= 1 and
\* arg.replace('.', '').replace('-', '').isdigit()
arg_is_float_or_int(arg) ==
    /\ Count(arg, "-") <= 1
    /\ Count(arg, ".") <= 1
    /\ IsDigitStr(Remove(Remove(arg, "."), "-"))

\* the fraction digits without their trailing zeros: 1.50 and 1.5 are one float
RECURSIVE StripZeros(_)
StripZeros(s) ==
    IF Len(s) > 0 /\ s[Len(s)] = "0" THEN StripZeros(SubSeq(s, 1, Len(s) - 1)) ELSE s

\* float(s) of a string of digits with at most one '.' and at most one '-':
\* a ValueError unless the '-' leads
FloatOf(s) ==
    LET neg == StartsWith(s, <<"-">>)
        body == IF neg THEN Drop(s, 1) ELSE s
        dot == IF \E i \in 1..Len(body) : body[i] = "."
               THEN CHOOSE i \in 1..Len(body) : body[i] = "."
               ELSE Len(body) + 1
        ip == SubSeq(body, 1, dot - 1)
        fp == Drop(body, dot)
    IN  IF Count(body, "-") > 0 \/ ~IsDigitStr(Remove(body, "."))
        THEN [type |-> "ValueError", neg |-> FALSE, int |-> 0, frac |-> <<>>]
        ELSE [type |-> "float", neg |-> neg, int |-> ParseInt(ip),
              frac |-> StripZeros(fp)]

\* float(arg[1:]) * -1 if arg.startswith('-') else float(arg)
get_float_from_arg(arg) ==
    IF StartsWith(arg, <<"-">>)
    THEN LET f == FloatOf(Drop(arg, 1))
         IN  IF f.type = "float" THEN [f EXCEPT !.neg = ~f.neg] ELSE f
    ELSE FloatOf(arg)

\* re.match(_USR_ARGS_REG, a) is not None, for
\* ^(?:--|-){1}[a-z]((?:[a-z])|(?:-)(?!-))+ : a match of a prefix of a
MatchFlagAt(a, k) ==
    \* k dashes consumed; [a-z], then one round of the group is enough
    /\ Len(a) >= k + 2
    /\ a[k + 1] \in Lower
    /\ \/ a[k + 2] \in Lower
       \/ a[k + 2] = "-" /\ (Len(a) = k + 2 \/ a[k + 3] # "-")

USR_ARGS_REG_match(a) ==
    \/ StartsWith(a, <<"-", "-">>) /\ MatchFlagAt(a, 2)
    \/ StartsWith(a, <<"-">>) /\ MatchFlagAt(a, 1)

\* the bit flipped instead of set: a repeated flag clears it again
SetBit_toggle(opts, k) ==
    IF (opts \div (2 ^ k)) % 2 = 1 THEN opts - 2 ^ k ELSE opts + 2 ^ k

\* opts |= 1 << k
SetBit(opts, k) == IF (opts \div (2 ^ k)) % 2 = 1 THEN opts ELSE opts + 2 ^ k

\* args.index(x): 0 stands for the ValueError of a missing x
IndexOf(args, x) ==
    IF \E i \in 1..Len(args) : args[i] = x
    THEN CHOOSE i \in 1..Len(args) : args[i] = x /\ \A j \in 1..(i - 1) : args[j] # x
    ELSE 0

\* next((a for a in args if pred(a)), None): 0 stands for None
FirstWhere(args, Pred(_)) ==
    IF \E i \in 1..Len(args) : Pred(args[i])
    THEN CHOOSE i \in 1..Len(args) : Pred(args[i]) /\ \A j \in 1..(i - 1) : ~Pred(args[j])
    ELSE 0

TooLarge(a) == Len(a) > MAX_ARG_WRD_SZ
HasNonAscii(a) == \E i \in 1..Len(a) : ~IsAscii(a[i])

NoKw == [k \in {} |-> 0]

\* what _validate_usr_args hands back: (err, opts, kwargs) with the positional
\* stack it built, or the exception it raises (kind "ValueError")
VResult(kind, word, word2, offset, caret, opts, kwargs, stack) ==
    [kind |-> kind, word |-> word, word2 |-> word2, offset |-> offset,
     caret |-> caret, opts |-> opts, kwargs |-> kwargs, stack |-> stack]

VFault == VResult("ValueError", <<>>, <<>>, 0, 0, 0, NoKw, <<>>)

\* lines 298-323: the two guards that run over all tokens before the loop
GuardError(args, kind, n) ==
    LET err == remove_formatting_from_arg(args[n])
        idx == IndexOf(args, err)
    IN  IF idx = 0 THEN VFault
        ELSE VResult(kind, err, <<>>, SumLen(args, idx - 1) + 1, Len(err), 0, NoKw, <<>>)

\* every value collected as a positional, none bound to a flag
IsPositional_always(args, i) == TRUE

\* line 337: whether the value at token i (1-based) is a standalone positional;
\* args[i-1] is Python's index -1, the last token, when i is the first
IsPositional(args, i) ==
    LET prev == IF i = 1 THEN args[Len(args)] ELSE args[i - 1]
    IN  \/ StartsWith(prev, <<"-", "-">>)
        \/ i = 1
        \/ IsAlpha(prev)
        \/ arg_is_float_or_int(prev)

\* lines 325-377: the loop over the tokens, from token i (1-based) on
RECURSIVE ValidateLoop(_, _, _, _, _, _)
ValidateLoop(args, i, start, opts, stack, kwargs) ==
    IF i > Len(args) THEN VResult("ok", <<>>, <<>>, 0, 0, opts, kwargs, stack)
    ELSE
    LET a == args[i]
        \* args[i-1]: Python's index -1 is the last token when i is the first
        prev == IF i = 1 THEN args[Len(args)] ELSE args[i - 1]
        arg_is_float == arg_is_float_or_int(a)
        is_value == arg_is_float \/ IsAlpha(a)
        parsed_arg == IF arg_is_float THEN get_float_from_arg(a)
                      ELSE [type |-> "str", neg |-> FALSE, int |-> 0, frac |-> a]
        positional == IsPositional(args, i)
        key == Drop(prev, 1)
        \* lines 369-375
        opts2 == IF StartsWith(a, <<"-", "-">>) /\ Drop(a, 2) \in DOMAIN StartArgs
                    /\ StartArgs[Drop(a, 2)].default_is_int
                 THEN SetBit(opts, StartArgs[Drop(a, 2)].default)
                 ELSE opts
    IN  IF is_value
        THEN IF parsed_arg.type = "ValueError" THEN VFault
             ELSE IF positional
             THEN ValidateLoop(args, i + 1, start + Len(a) + 1, opts2,
                               Append(stack, parsed_arg), kwargs)
             ELSE IF key \notin DOMAIN StartArgs THEN VFault
             ELSE IF StartArgs[key].annotation # parsed_arg.type
             THEN VResult("FlagTypeMismatch", prev, remove_formatting_from_arg(a),
                          0, 0, opts, kwargs, stack)
             ELSE ValidateLoop(args, i + 1, start + Len(a) + 1, opts2, stack,
                               [k \in DOMAIN kwargs \cup {prev} |->
                                   IF k = prev THEN parsed_arg ELSE kwargs[k]])
        ELSE IF ~USR_ARGS_REG_match(a)
        THEN VResult("MalformedToken", remove_formatting_from_arg(a), <<>>,
                     start, Len(a), opts, kwargs, stack)
        ELSE ValidateLoop(args, i + 1, start + Len(a) + 1, opts2, stack, kwargs)

\* BotHandler._validate_usr_args(StartArgs, *args)
validate_usr_args(args) ==
    LET big == FirstWhere(args, TooLarge)
        bad == FirstWhere(args, HasNonAscii)
    IN  IF big # 0 THEN GuardError(args, "TokenTooLarge", big)
        ELSE IF bad # 0 THEN GuardError(args, "NonAsciiToken", bad)
        ELSE ValidateLoop(args, 1, 0, 0, <<>>, NoKw)

-----------------------------------------------------------------------------
(* The container locator: BotHandler._parse_dockerps                       *)

NL == "\n"

\* the index after the longest run of characters of set S that starts at p
RECURSIVE RunEnd(_, _, _)
RunEnd(s, p, S) == IF p <= Len(s) /\ s[p] \in S THEN RunEnd(s, p + 1, S) ELSE p

HasAt(s, p, lit) == p + Len(lit) - 1 <= Len(s) /\ SubSeq(s, p, p + Len(lit) - 1) = lit

\* _PSNAME_REG = (?:NAMES\n)(\d+-mc-\d+\n*) matched at position p:
\* <<start of the group, index after the match>>, or <<0, 0>> for no match
PSNAME_REG_at(s, p) ==
    LET g == p + 6
        d1 == RunEnd(s, g, Digits)
        d2 == RunEnd(s, d1 + 4, Digits)
    IN  IF /\ HasAt(s, p, <<"N", "A", "M", "E", "S", NL>>)
           /\ d1 > g
           /\ HasAt(s, d1, <<"-", "m", "c", "-">>)
           /\ d2 > d1 + 4
        THEN <<g, RunEnd(s, d2, {NL})>>
        ELSE <<0, 0>>

\* re.findall(_PSNAME_REG, raw): the groups of the non-overlapping matches,
\* scanning from position p
RECURSIVE PSNAME_REG_findall(_, _)
PSNAME_REG_findall(s, p) ==
    IF p > Len(s) THEN <<>>
    ELSE LET m == PSNAME_REG_at(s, p)
         IN  IF m[1] = 0 THEN PSNAME_REG_findall(s, p + 1)
             ELSE <<SubSeq(s, m[1], m[2] - 1)>> \o PSNAME_REG_findall(s, m[2])

\* str.strip() of a name followed by newlines
RECURSIVE Strip(_)
Strip(s) ==
    IF Len(s) > 0 /\ s[Len(s)] \in {NL, " "} THEN Strip(SubSeq(s, 1, Len(s) - 1))
    ELSE IF Len(s) > 0 /\ s[1] \in {NL, " "} THEN Strip(Tail(s))
    ELSE s

\* the longest run of digits that ends at index e of s
RECURSIVE DigitsBefore(_, _)
DigitsBefore(s, e) ==
    IF e >= 1 /\ s[e] \in Digits THEN Append(DigitsBefore(s, e - 1), s[e]) ELSE <<>>

\* re.search(_CONTAINER_SUBVER_REG, v).group(0) for (\d+)$ : the digits that end
\* the string, or end it before one final newline; <<>> stands for no match
CONTAINER_SUBVER_REG_search(v) ==
    LET atEnd == DigitsBefore(v, Len(v))
    IN  IF atEnd # <<>> THEN atEnd
        ELSE IF Len(v) > 0 /\ v[Len(v)] = NL THEN DigitsBefore(v, Len(v) - 1)
        ELSE <<>>

\* lines 212-216: the loop that keeps max((subver, i)); acc is <<subver, i>>,
\* <<-1, 0>> stands for (-infinity, None), <<-2, 0>> for the AttributeError of
\* a failed search
RECURSIVE MaxSubver(_, _, _)
MaxSubver(valid_vers, i, acc) ==
    IF i > Len(valid_vers) THEN acc
    ELSE LET d == CONTAINER_SUBVER_REG_search(valid_vers[i])
             subver == ParseInt(d)
         IN  IF d = <<>> THEN <<-2, 0>>
             ELSE MaxSubver(valid_vers, i + 1,
                            IF subver >= acc[1] THEN <<subver, i>> ELSE acc)

ParseFault(kind) == [kind |-> kind, name |-> <<>>]

\* _parse_dockerps on the text raw that _dockerps returned
parse_dockerps(raw) ==
    LET valid_vers == PSNAME_REG_findall(raw, 1)
        m == MaxSubver(valid_vers, 1, <<-1, 0>>)
    IN  IF m[1] = -2 THEN ParseFault("AttributeError")
        ELSE IF m[2] = 0 THEN ParseFault("TypeError")
        ELSE [kind |-> "ok", name |-> Strip(valid_vers[m[2]])]

\* the text of a listing: every line followed by a newline
RECURSIVE Lines(_)
Lines(ls) == IF Len(ls) = 0 THEN <<>> ELSE ls[1] \o <<NL>> \o Lines(Tail(ls))

-----------------------------------------------------------------------------
(* The volume provisioner: lines 225-231 of BotHandler._run_docker_target  *)

TMP_PREFIX == <<"t", "m", "p", "-", "m", "c", "-">>

\* f'tmp-mc-{n}'
SlotName(n) == TMP_PREFIX \o FormatInt(n)

\* the lowest unused number instead of the maximum plus one
next_slot_fillgap(list_dir) ==
    LET used == {ParseInt(CONTAINER_SUBVER_REG_search(fn)) : fn \in list_dir}
        free == CHOOSE n \in 1..(Cardinality(list_dir) + 1) : n \notin used
                    /\ \A k \in 1..(n - 1) : k \in used
    IN  IF \E fn \in list_dir : CONTAINER_SUBVER_REG_search(fn) = <<>>
        THEN [kind |-> "AttributeError", name |-> <<>>]
        ELSE [kind |-> "ok", name |-> SlotName(free)]

\* the maximum itself instead of the maximum plus one: the newest slot again
next_slot_reuse(list_dir) ==
    LET subvers == {ParseInt(CONTAINER_SUBVER_REG_search(fn)) : fn \in list_dir}
        max_dir == IF list_dir = {} THEN 1
                   ELSE CHOOSE m \in subvers : \A k \in subvers : k <= m
    IN  IF \E fn \in list_dir : CONTAINER_SUBVER_REG_search(fn) = <<>>
        THEN [kind |-> "AttributeError", name |-> <<>>]
        ELSE [kind |-> "ok", name |-> SlotName(max_dir)]

\* lines 226-230: the name of the directory to create, from os.listdir(tmp_dir);
\* "AttributeError" when a name does not end in digits
next_slot(list_dir) ==
    LET subvers == {ParseInt(CONTAINER_SUBVER_REG_search(fn)) : fn \in list_dir}
        max_dir == IF list_dir = {} THEN 0
                   ELSE CHOOSE m \in subvers : \A k \in subvers : k <= m
    IN  IF \E fn \in list_dir : CONTAINER_SUBVER_REG_search(fn) = <<>>
        THEN [kind |-> "AttributeError", name |-> <<>>]
        ELSE [kind |-> "ok", name |-> SlotName(max_dir + 1)]

\* os.mkdir(tmp_mount) after next_slot: the directory afterwards, or the
\* FileExistsError of an existing name
provision(list_dir) ==
    LET s == next_slot(list_dir)
    IN  IF s.kind # "ok" THEN [kind |-> s.kind, name |-> <<>>, dir |-> list_dir]
        ELSE IF s.name \in list_dir
        THEN [kind |-> "FileExistsError", name |-> s.name, dir |-> list_dir]
        ELSE [kind |-> "ok", name |-> s.name, dir |-> list_dir \cup {s.name}]

-----------------------------------------------------------------------------
(* Bounds of the model                                                     *)

MaxTasks == 2        \* start invocations in one run
MaxChecks == 2       \* DOCKER_DAEMON_MAXCHECKS ranges over 0..MaxChecks
MaxThreshold == 1    \* restart_threshold ranges over 0..MaxThreshold
MaxTicks == 1        \* the clock advances at most this far
MaxArgs == 2         \* tokens in one validated command
MaxLines == 4        \* lines of one docker ps text
MaxSlot == 7         \* directory names tmp-mc-0 .. tmp-mc-MaxSlot, and tmp-mc-10

-----------------------------------------------------------------------------
(* Inputs                                                                  *)

T_alloc == <<"-", "a", "l", "l", "o", "c">>
T_tmp == <<"-", "t", "m", "p">>
T_foo == <<"-", "f", "o", "o">>
T_ddtmp == <<"-", "-", "t", "m", "p">>
T_ddalloc == <<"-", "-", "a", "l", "l", "o", "c">>
T_ddfoo == <<"-", "-", "f", "o", "o">>
T_word == <<"a", "b", "c">>
T_num == <<"1", ".", "5">>
T_neg == <<"-", "5">>
T_midminus == <<"5", "-", "1">>
T_star == <<"a", "*", "b">>
T_short == <<"-", "a">>
T_uni == <<"U+00E9", "a">>
T_trail == <<"-", "a", "b", "*">>

\* the tokens a validated command is drawn from
Tokens ==
    { T_alloc, T_tmp, T_foo, T_ddtmp, T_ddalloc, T_ddfoo, T_word, T_num, T_neg,
      T_midminus, T_star, T_short, T_uni, T_trail,
      Rep("a", MAX_ARG_WRD_SZ), Rep("a", MAX_ARG_WRD_SZ + 1),
      Rep("_", MAX_ARG_WRD_SZ), Rep("_", MAX_ARG_WRD_SZ + 1),
      Rep("U+00E9", MAX_ARG_WRD_SZ + 1) }

SeqsUpTo(S, n) == UNION {[1..k -> S] : k \in 0..n}

\* the commands the start handler is invoked with in the process model
StartInputs == { <<>>, <<T_ddtmp>>, <<T_alloc, T_num>>, <<T_tmp, T_num>>, <<T_foo, T_num>> }

L_names == <<"N", "A", "M", "E", "S">>
L_c2 == <<"1", "1", "9", "3", "-", "m", "c", "-", "2">>
L_c10 == <<"1", "1", "9", "3", "-", "m", "c", "-", "1", "0">>
L_c3 == <<"1", "1", "9", "3", "-", "m", "c", "-", "3">>

\* the lines a docker ps text is made of
ListingLines == { L_names, L_c2, L_c10, L_c3, <<>> }

\* what docker ps prints in the process model: no container, or three
ProcListings == { Lines(<<L_names>>), Lines(<<L_names, L_c2, L_c10, L_c3>>) }

\* the names the temporary volume directory may hold
SlotNames == {SlotName(n) : n \in 0..MaxSlot} \cup {SlotName(10)}

\* a directory entry that does not end in digits
StrayName == <<"t", "m", "p">>

-----------------------------------------------------------------------------
(* The process: start invocations on one event loop                        *)

Tasks == 1..MaxTasks

TaskInit ==
    [pc |-> "idle", now |-> 0, opts |-> 0, gap |-> 0, began_checked |-> FALSE,
     n_checks |-> 0, check |-> FALSE, raw |-> <<>>, probes |-> 0, anyok |-> FALSE,
     launches |-> 0, container |-> <<>>, slot |-> <<>>, launched |-> FALSE,
     outcome |-> "none", fault |-> "none", replies |-> 0]

\* DOCKER_DAEMON_MAXCHECKS is read only by the --ldd branch of _dockerps, which
\* mock mode never enters: it is left at 0 where no code reads it
ProcInit ==
    /\ mock \in BOOLEAN
    /\ ldd \in (IF mock THEN {FALSE} ELSE BOOLEAN)
    /\ maxchecks \in (IF ldd THEN 0..MaxChecks ELSE {0})
    /\ threshold \in 0..MaxThreshold
    /\ session = [active |-> FALSE, start |-> 0]
    /\ daemon_checked = FALSE
    /\ tmpdir = {}
    /\ clock = MaxThreshold
    /\ cur = 0
    /\ task = [t \in Tasks |-> TaskInit]

\* the pure functions' variables, at rest
VNone == VResult("none", <<>>, <<>>, 0, 0, 0, NoKw, <<>>)
LNone == [kind |-> "none", name |-> <<>>]
PNone == [kind |-> "none", name |-> <<>>, dir |-> {}]

PureIdle ==
    /\ vargs = <<>> /\ vres = VNone
    /\ lraw = <<>> /\ lres = LNone
    /\ pdir = {} /\ pres = PNone

\* the invocation ends: with an exception leaving the handler (fault), or by
\* returning after its reply. Its frame is gone: only the message's time, what
\* the gate saw, whether it launched a process and how it ended are kept
Ended(t, outcome, fault, replied) ==
    [TaskInit EXCEPT !.pc = "done", !.now = task[t].now, !.gap = task[t].gap,
                     !.launched = task[t].launched,
                     !.outcome = outcome, !.fault = fault,
                     !.replies = IF replied THEN 1 ELSE 0]

\* time passes between invocations
Tick ==
    /\ cur = 0
    /\ clock < MaxThreshold + MaxTicks
    /\ clock' = clock + 1
    /\ UNCHANGED <<mock, ldd, maxchecks, threshold, session, daemon_checked, tmpdir,
                   cur, task,
                   pureVars>>

\* lines 391-396: the handler is invoked with a message created at the clock's
\* time; it validates and replies with the error or goes on to the gate
Start(t) ==
    /\ cur = 0
    /\ task[t].pc = "idle"
    /\ \A u \in Tasks : u < t => task[u].pc # "idle"
    /\ \E args \in StartInputs :
         LET v == validate_usr_args(args)
             me == [task[t] EXCEPT !.now = clock, !.began_checked = daemon_checked]
         IN  IF v.kind = "ValueError"
             THEN /\ task' = [task EXCEPT ![t] =
                        [me EXCEPT !.pc = "done", !.began_checked = FALSE,
                                   !.outcome = "ValidationFault", !.fault = "ValueError"]]
                  /\ cur' = 0
             ELSE IF v.kind # "ok"
             THEN /\ task' = [task EXCEPT ![t] =
                        [me EXCEPT !.pc = "done", !.began_checked = FALSE,
                                   !.outcome = v.kind, !.replies = 1]]
                  /\ cur' = 0
             ELSE /\ task' = [task EXCEPT ![t] = [me EXCEPT !.pc = "gate", !.opts = v.opts]]
                  /\ cur' = t
    /\ UNCHANGED <<mock, ldd, maxchecks, threshold, session, daemon_checked, tmpdir, clock,
                   pureVars>>

\* the cooldown condition with the boundary on the wrong side
Busy_strict(now, start) == ~mock /\ now - start <= threshold

\* line 247: the cooldown condition of _spawn_server_session
Busy(now, start) == ~mock /\ now - start < threshold

\* the gate without the return of line 251: a rejected request is answered and
\* then launched all the same
Gate_fallthrough(t) ==
    /\ cur = t
    /\ task[t].pc = "gate"
    /\ LET me == [task[t] EXCEPT !.gap = task[t].now - session.start]
       IN  IF Busy(task[t].now, session.start)
           THEN /\ session' = [session EXCEPT !.active = FALSE]
                /\ task' = [task EXCEPT ![t] = [me EXCEPT !.pc = "target", !.replies = 1]]
                /\ UNCHANGED cur
           ELSE /\ task' = [task EXCEPT ![t] = [me EXCEPT !.pc = "target"]]
                /\ UNCHANGED <<session, cur>>
    /\ UNCHANGED <<mock, ldd, maxchecks, threshold, daemon_checked, tmpdir, clock,
                   pureVars>>

\* lines 247-253: the cooldown gate
Gate(t) ==
    /\ cur = t
    /\ task[t].pc = "gate"
    /\ LET me == [task[t] EXCEPT !.gap = task[t].now - session.start]
       IN  IF Busy(task[t].now, session.start)
           THEN /\ session' = [session EXCEPT !.active = FALSE]
                /\ task' = [task EXCEPT ![t] =
                      [me EXCEPT !.pc = "done", !.opts = 0, !.began_checked = FALSE,
                                 !.outcome = "Busy", !.replies = 1]]
                /\ cur' = 0
           ELSE /\ task' = [task EXCEPT ![t] = [me EXCEPT !.pc = "target"]]
                /\ UNCHANGED <<session, cur>>
    /\ UNCHANGED <<mock, ldd, maxchecks, threshold, daemon_checked, tmpdir, clock,
                   pureVars>>

\* line 222: _run_docker_target does nothing in mock mode
EnterTarget(t) ==
    /\ cur = t
    /\ task[t].pc = "target"
    /\ task' = [task EXCEPT ![t].pc = IF mock THEN "commit" ELSE "dockerps"]
    /\ UNCHANGED <<mock, ldd, maxchecks, threshold, session, daemon_checked, tmpdir,
                   clock, cur,
                   pureVars>>

\* force-loading on every call, the cached readiness ignored
NeedsDaemonLoad_uncached == ldd

\* line 192: whether _dockerps force-loads the daemon
NeedsDaemonLoad == ldd /\ ~daemon_checked

\* subprocess.run(cmd): docker ps fails, or prints a listing
Probed(t, ok, text, n) ==
    [task[t] EXCEPT !.check = ok, !.raw = IF ok THEN text ELSE <<>>,
                    !.probes = @ + 1, !.anyok = @ \/ ok, !.n_checks = n]

\* lines 193-196: launch the daemon, run the first check
DaemonLaunch(t) ==
    /\ cur = t
    /\ task[t].pc = "dockerps"
    /\ NeedsDaemonLoad
    /\ \E ok \in BOOLEAN, text \in ProcListings :
         task' = [task EXCEPT ![t] =
                    [Probed(t, ok, text, 0) EXCEPT !.launches = @ + 1, !.pc = "loop"]]
    /\ UNCHANGED <<mock, ldd, maxchecks, threshold, session, daemon_checked, tmpdir,
                   clock, cur,
                   pureVars>>

\* line 207: docker ps once; its failure is a CalledProcessError, which
\* catchSubProcess turns into a RuntimeError
CheckOutput(t) ==
    /\ cur = t
    /\ task[t].pc = "dockerps"
    /\ ~NeedsDaemonLoad
    /\ \/ \E text \in ProcListings :
            /\ task' = [task EXCEPT ![t] = [task[t] EXCEPT !.raw = text, !.pc = "parse"]]
            /\ cur' = cur
       \/ /\ task' = [task EXCEPT ![t] = Ended(t, "ListingFailed", "RuntimeError", FALSE)]
          /\ cur' = 0
    /\ UNCHANGED <<mock, ldd, maxchecks, threshold, session, daemon_checked, tmpdir, clock,
                   pureVars>>

\* line 197: the condition of the polling loop
KeepPolling(check, n_checks) == ~check /\ n_checks < maxchecks

\* line 202: the condition of giving up
GiveUp(check, n_checks) == n_checks = maxchecks

\* lines 197-205: the loop test; the task sleeps (and releases the event loop),
\* or leaves the loop and gives up or records the daemon as checked. The raise
\* of line 203 builds CalledProcessError with one argument, a TypeError that
\* catchSubProcess does not catch
PollLoop(t) ==
    /\ cur = t
    /\ task[t].pc = "loop"
    /\ IF KeepPolling(task[t].check, task[t].n_checks)
       THEN /\ task' = [task EXCEPT ![t].pc = "sleep"]
            /\ cur' = 0
            /\ UNCHANGED daemon_checked
       ELSE IF GiveUp(task[t].check, task[t].n_checks)
       THEN /\ task' = [task EXCEPT ![t] = Ended(t, "DaemonUnavailable", "TypeError", FALSE)]
            /\ cur' = 0
            /\ UNCHANGED daemon_checked
       ELSE /\ daemon_checked' = TRUE
            /\ task' = [task EXCEPT ![t].pc = "parse"]
            /\ UNCHANGED cur
    /\ UNCHANGED <<mock, ldd, maxchecks, threshold, session, tmpdir, clock,
                   pureVars>>

\* lines 199-201: the sleep ends, the check runs again
PollWake(t) ==
    /\ cur = 0
    /\ task[t].pc = "sleep"
    /\ \E ok \in BOOLEAN, text \in ProcListings :
         task' = [task EXCEPT ![t] =
                    [Probed(t, ok, text, task[t].n_checks + 1) EXCEPT !.pc = "loop"]]
    /\ cur' = t
    /\ UNCHANGED <<mock, ldd, maxchecks, threshold, session, daemon_checked, tmpdir, clock,
                   pureVars>>

\* lines 210-217, 223: the newest container of the listing
Locate(t) ==
    /\ cur = t
    /\ task[t].pc = "parse"
    /\ LET r == parse_dockerps(task[t].raw)
       IN  IF r.kind = "ok"
           THEN /\ task' = [task EXCEPT ![t] =
                      [task[t] EXCEPT !.container = r.name, !.raw = <<>>, !.pc = "launch"]]
                /\ UNCHANGED cur
           ELSE /\ task' = [task EXCEPT ![t] = Ended(t, "ContainerNotFound", r.kind, FALSE)]
                /\ cur' = 0
    /\ UNCHANGED <<mock, ldd, maxchecks, threshold, session, daemon_checked, tmpdir, clock,
                   pureVars>>

\* line 224: the tmp option
WantsTmp(opts) == opts % 2 = 1

\* lines 224-240: a new volume and docker run, or docker start of the container;
\* Popen starts the process or raises an OSError
Launch(t) ==
    /\ cur = t
    /\ task[t].pc = "launch"
    /\ IF WantsTmp(task[t].opts)
       THEN LET p == provision(tmpdir)
            IN  IF p.kind # "ok"
                THEN /\ task' = [task EXCEPT ![t] = Ended(t, "LaunchFailure", p.kind, FALSE)]
                     /\ cur' = 0
                     /\ UNCHANGED tmpdir
                ELSE /\ tmpdir' = p.dir
                     /\ \/ /\ task' = [task EXCEPT ![t] =
                                [task[t] EXCEPT !.slot = p.name, !.launched = TRUE,
                                                !.pc = "commit"]]
                           /\ UNCHANGED cur
                        \/ /\ task' = [task EXCEPT ![t] =
                                Ended(t, "LaunchFailure", "OSError", FALSE)]
                           /\ cur' = 0
       ELSE /\ UNCHANGED tmpdir
            /\ \/ /\ task' = [task EXCEPT ![t] =
                        [task[t] EXCEPT !.launched = TRUE, !.pc = "commit"]]
                  /\ UNCHANGED cur
               \/ /\ task' = [task EXCEPT ![t] = Ended(t, "LaunchFailure", "OSError", FALSE)]
                  /\ cur' = 0
    /\ UNCHANGED <<mock, ldd, maxchecks, threshold, session, daemon_checked, clock,
                   pureVars>>

\* lines 255-273: the session is recorded and the requester answered
Commit(t) ==
    /\ cur = t
    /\ task[t].pc = "commit"
    /\ session' = [active |-> TRUE, start |-> task[t].now]
    /\ task' = [task EXCEPT ![t] = Ended(t, "Started", "none", TRUE)]
    /\ cur' = 0
    /\ UNCHANGED <<mock, ldd, maxchecks, threshold, daemon_checked, tmpdir, clock,
                   pureVars>>

Init == ProcInit /\ PureIdle

Next ==
    \/ Tick
    \/ \E t \in Tasks : Start(t)
    \/ \E t \in Tasks : Gate(t)
    \/ \E t \in Tasks : EnterTarget(t)
    \/ \E t \in Tasks : DaemonLaunch(t)
    \/ \E t \in Tasks : CheckOutput(t)
    \/ \E t \in Tasks : PollLoop(t)
    \/ \E t \in Tasks : PollWake(t)
    \/ \E t \in Tasks : Locate(t)
    \/ \E t \in Tasks : Launch(t)
    \/ \E t \in Tasks : Commit(t)

Spec == Init /\ [][Next]_vars

-----------------------------------------------------------------------------
(* The pure functions applied on their own, to inputs drawn at the start    *)

\* the process at rest while a pure function is applied
ProcAtRest ==
    /\ mock = FALSE /\ ldd = FALSE /\ maxchecks = 0 /\ threshold = 0
    /\ session = [active |-> FALSE, start |-> 0]
    /\ daemon_checked = FALSE /\ tmpdir = {} /\ clock = 0 /\ cur = 0
    /\ task = [t \in Tasks |-> TaskInit]

InitValidate ==
    /\ ProcAtRest
    /\ vargs \in SeqsUpTo(Tokens, MaxArgs) /\ vres = VNone
    /\ lraw = <<>> /\ lres = LNone
    /\ pdir = {} /\ pres = PNone

\* self._validate_usr_args(BotHandler.StartArgs, *args)
Validate ==
    /\ vres.kind = "none"
    /\ vres' = validate_usr_args(vargs)
    /\ UNCHANGED <<procVars, vargs, locVars, provVars>>

SpecValidate == InitValidate /\ [][Validate]_vars

InitLocate ==
    /\ ProcAtRest
    /\ vargs = <<>> /\ vres = VNone
    /\ lraw \in {Lines(ls) : ls \in SeqsUpTo(ListingLines, MaxLines)} /\ lres = LNone
    /\ pdir = {} /\ pres = PNone

\* self._parse_dockerps() on the text of one docker ps
ParseListing ==
    /\ lres.kind = "none"
    /\ lres' = parse_dockerps(lraw)
    /\ UNCHANGED <<procVars, valVars, lraw, provVars>>

SpecLocate == InitLocate /\ [][ParseListing]_vars

InitProvision ==
    /\ ProcAtRest
    /\ vargs = <<>> /\ vres = VNone
    /\ lraw = <<>> /\ lres = LNone
    /\ pdir \in SUBSET (SlotNames \cup {StrayName}) /\ pres = PNone

\* lines 225-231 on one directory
Provision ==
    /\ pres.kind = "none"
    /\ pres' = provision(pdir)
    /\ UNCHANGED <<procVars, valVars, locVars, pdir>>

SpecProvision == InitProvision /\ [][Provision]_vars

-----------------------------------------------------------------------------
(* Properties                                                              *)

Abs(x) == IF x < 0 THEN -x ELSE x

\* t has just been through the cooldown gate in this step
GateStep(t) == task[t].pc = "gate" /\ task'[t].pc # "gate"

\* the poller of t gives up in this step
GivesUp(t) == task[t].pc = "loop" /\ task'[t].outcome = "DaemonUnavailable"

\* C1: of two non-mock start invocations whose message timestamps are less than
\* the restart threshold apart, at most one passes the cooldown check and goes
\* on to launch a process.
C1_AtMostOneLaunch ==
    \A t1, t2 \in Tasks :
        (t1 # t2 /\ ~mock /\ task[t1].launched /\ task[t2].launched)
            => Abs(task[t1].now - task[t2].now) >= threshold

\* C2 as stated: a start request is admitted by the gate if and only if
\* now - session.start >= threshold, whatever the mode of the process.
C2_AdmittedIffElapsed ==
    [][\A t \in Tasks : GateStep(t) =>
          (task'[t].pc = "target" <=> task[t].now - session.start >= threshold)]_vars

\* C2 amended: outside mock mode a start request is admitted if and only if
\* now - session.start >= threshold, and is rejected as busy otherwise; in mock
\* mode every request is admitted.
C2_AdmittedIffElapsedOrMock ==
    [][\A t \in Tasks : GateStep(t) =>
          /\ task'[t].pc = "target" <=> (mock \/ task[t].now - session.start >= threshold)
          /\ task'[t].pc # "target" => task'[t].outcome = "Busy"
          /\ task'[t].gap = task[t].now - session.start]_vars

\* C2 witness: outside mock mode one request was admitted with exactly the
\* threshold elapsed and another rejected one unit below it.
C2_Witness ==
    /\ ~mock /\ threshold > 0
    /\ \E t1, t2 \in Tasks :
         /\ task[t1].outcome = "Started" /\ task[t1].gap = threshold
         /\ task[t2].outcome = "Busy" /\ task[t2].gap = threshold - 1

\* C3: a rejection by the cooldown gate leaves session.active and
\* session.start as they were.
C3_RejectionLeavesSession ==
    [][\A t \in Tasks : (GateStep(t) /\ task'[t].outcome = "Busy") => session' = session]_vars

\* C4: when every probe of one _dockerps call failed, the call has executed the
\* probe exactly DOCKER_DAEMON_MAXCHECKS times when it gives up.
C4_ExactlyMaxChecksProbes ==
    [][\A t \in Tasks : (GivesUp(t) /\ ~task[t].anyok) => task[t].probes = maxchecks]_vars

\* C5: the poller ends ready, with the daemon marked as checked, whenever one of
\* its probes succeeded, and gives up only when every probe it ran failed.
C5_ReadyIffSomeProbeSucceeded ==
    [][\A t \in Tasks :
          (task[t].pc = "loop" /\ task'[t].pc \notin {"loop", "sleep"}) =>
              /\ task[t].anyok => (task'[t].pc = "parse" /\ daemon_checked')
              /\ task'[t].outcome = "DaemonUnavailable" => ~task[t].anyok]_vars

\* C6: once _daemon_checked is True it stays True; an invocation that begins
\* afterwards launches no daemon and runs no polling probe; and a call that
\* gives up does not set the flag.
C6_ReadinessCached ==
    /\ [](\A t \in Tasks :
            task[t].began_checked =>
                /\ task[t].launches = 0 /\ task[t].probes = 0
                /\ task[t].pc \notin {"loop", "sleep"})
    /\ [][/\ daemon_checked => daemon_checked'
          /\ \A t \in Tasks : GivesUp(t) => daemon_checked' = daemon_checked]_vars

\* C6 witness: the daemon is marked as checked and an invocation that began
\* afterwards has its listing without a launch or a probe.
C6_Witness ==
    /\ daemon_checked
    /\ \E t \in Tasks :
         /\ task[t].began_checked /\ task[t].pc = "parse"
         /\ task[t].launches = 0 /\ task[t].probes = 0

\* the lines of a text in which every line ends with a newline
RECURSIVE SplitLines(_)
SplitLines(raw) ==
    IF Len(raw) = 0 THEN <<>>
    ELSE LET e == RunEnd(raw, 1, Digits \cup Lower \cup Upper \cup {"-"})
         IN  <<SubSeq(raw, 1, e - 1)>> \o SplitLines(Drop(raw, e))

\* a line <version>-mc-<integer>
IsRecordLine(l) ==
    \E k \in 2..(Len(l) - 4) :
        /\ IsDigitStr(SubSeq(l, 1, k - 1))
        /\ SubSeq(l, k, k + 3) = <<"-", "m", "c", "-">>
        /\ IsDigitStr(Drop(l, k + 3))

RecordNum(l) ==
    LET k == CHOOSE k \in 2..(Len(l) - 4) : SubSeq(l, k, k + 3) = <<"-", "m", "c", "-">>
    IN  ParseInt(Drop(l, k + 3))

\* what docker ps prints with --format "table {{.Names}}": the header, then one
\* container name per line
IsTable(ls) ==
    /\ Len(ls) >= 2 /\ ls[1] = L_names
    /\ \A i \in 2..Len(ls) : IsRecordLine(ls[i])

\* C7: for a listing with one or more lines <version>-mc-<integer>,
\* _parse_dockerps returns the name whose trailing integer is the numeric
\* maximum over all those lines, wherever the line stands.
C7_ReturnsNumericMax ==
    LET ls == SplitLines(lraw)
    IN  (lres.kind # "none" /\ IsTable(ls)) =>
            /\ lres.kind = "ok"
            /\ \E i \in 2..Len(ls) :
                 /\ lres.name = ls[i]
                 /\ \A j \in 2..Len(ls) : RecordNum(ls[j]) <= RecordNum(ls[i])

\* the numbers n whose name tmp-mc-n is in the directory
SlotNumbers(d) == {n \in 0..(MaxSlot + 10) : SlotName(n) \in d}

SetMax(S) == CHOOSE m \in S : \A k \in S : k <= m

\* C8: for every set of names tmp-mc-<integer> the provisioner's next slot is
\* tmp-mc-(max + 1), max the largest existing integer or 0 for the empty set;
\* the new directory is added and no other entry changes.
C8_NextSlotIsMaxPlusOne ==
    (pres.kind # "none" /\ pdir \subseteq SlotNames) =>
        /\ pres.kind = "ok"
        /\ pres.name = SlotName(SetMax(SlotNumbers(pdir) \cup {0}) + 1)
        /\ pres.dir = pdir \cup {pres.name}
        /\ pres.name \notin pdir

\* C8 witness: tmp-mc-1, tmp-mc-2 and tmp-mc-4 exist and tmp-mc-5 was provided.
C8_Witness ==
    /\ pdir = {SlotName(1), SlotName(2), SlotName(4)}
    /\ pres.kind = "ok" /\ pres.name = SlotName(5)

\* the token grammar of the validator: a number with at most one leading minus
\* sign and one decimal point, a word of letters, or a flag of one or two
\* dashes, a lowercase letter and then lowercase letters or single dashes
IsNumberToken(a) ==
    /\ arg_is_float_or_int(a)
    /\ Count(a, "-") = 1 => a[1] = "-"

IsWordToken(a) == Len(a) > 0 /\ \A i \in 1..Len(a) : a[i] \in Lower \cup Upper

IsFlagToken(a) ==
    \E k \in {1, 2} :
        /\ Len(a) >= k + 2
        /\ \A i \in 1..k : a[i] = "-"
        /\ a[k + 1] \in Lower
        /\ \A i \in (k + 2)..Len(a) :
             \/ a[i] \in Lower
             \/ a[i] = "-" /\ i < Len(a) /\ a[i + 1] # "-"

InGrammar(a) ==
    /\ Len(a) <= MAX_ARG_WRD_SZ
    /\ \A i \in 1..Len(a) : IsAscii(a[i])
    /\ IsNumberToken(a) \/ IsWordToken(a) \/ IsFlagToken(a)

\* C9: for tokens of the grammar, each of at most 128 ASCII characters,
\* _validate_usr_args returns a parsed result or an error that names a token of
\* the input; it never raises.
C9_NeverRaises ==
    (vres.kind # "none" /\ \A i \in 1..Len(vargs) : InGrammar(vargs[i])) =>
        /\ vres.kind # "ValueError"
        /\ vres.kind # "ok" =>
             \E i \in 1..Len(vargs) : vres.word \in {vargs[i], remove_formatting_from_arg(vargs[i])}

\* C10: a token of exactly 128 characters never causes the length error, and a
\* command with a token of 129 or more characters always ends with the
\* TokenTooLarge error result, whatever its characters.
C10_LengthGuard ==
    vres.kind # "none" =>
        /\ (\A i \in 1..Len(vargs) : Len(vargs[i]) <= MAX_ARG_WRD_SZ) => vres.kind # "TokenTooLarge"
        /\ (\E i \in 1..Len(vargs) : Len(vargs[i]) > MAX_ARG_WRD_SZ) => vres.kind = "TokenTooLarge"

\* a token that is neither a value nor a flag for the loop of the validator
IsMalformed(a) == ~arg_is_float_or_int(a) /\ ~IsAlpha(a) /\ ~USR_ARGS_REG_match(a)

\* the token an error result is about: the first one over the size limit, the
\* first one with a non-ASCII character, the first malformed one
OffendingIndex(args, kind) ==
    CASE kind = "TokenTooLarge" -> FirstWhere(args, TooLarge)
      [] kind = "NonAsciiToken" -> FirstWhere(args, HasNonAscii)
      [] kind = "MalformedToken" -> FirstWhere(args, IsMalformed)

\* the column at which token i starts in the tokens joined by single spaces
StartColumn(args, i) == SumLen(args, i - 1) + (i - 1)

\* C11: for the TokenTooLarge, NonAsciiToken and MalformedToken results the
\* reported offset (the spaces before the carets) is the start column of the
\* offending token in the tokens joined by single spaces, 0 for the first token.
C11_OffsetIsStartColumn ==
    vres.kind \in {"TokenTooLarge", "NonAsciiToken", "MalformedToken"} =>
        vres.offset = StartColumn(vargs, OffendingIndex(vargs, vres.kind))

\* bit k of a bitmask
Bit(opts, k) == (opts \div (2 ^ k)) % 2 = 1

\* the double-dash spelling of a schema field
DoubleDash(name) == <<"-", "-">> \o name

\* the boolean flags of the schema whose bit position is k
BoolFlagsAt(k) ==
    {name \in DOMAIN StartArgs :
        StartArgs[name].annotation = "bool" /\ StartArgs[name].default = k}

\* C12: for every token sequence that validates, bit k of the returned options
\* is set if and only if the sequence holds the double-dash token of a boolean
\* schema flag with bit position k (bit 0 iff --tmp occurs); unknown and
\* non-boolean double-dash flags set no bit, and repeating a flag changes nothing.
C12_OptsBitmask ==
    vres.kind = "ok" =>
        \A k \in 0..3 :
            Bit(vres.opts, k) <=>
                \E i \in 1..Len(vargs), name \in BoolFlagsAt(k) : vargs[i] = DoubleDash(name)

\* C12 witness: --tmp given twice validated with only bit 0 set.
C12_Witness ==
    /\ vres.kind = "ok" /\ Len(vargs) = 2
    /\ vargs[1] = T_ddtmp /\ vargs[2] = T_ddtmp
    /\ vres.opts = 1

\* C13: every DaemonUnavailable, ContainerNotFound and LaunchFailure of a start
\* invocation is handled inside the handler: the invocation ends having sent
\* one reply to the requester, and no exception leaves the start handler.
C13_FailuresHandled ==
    \A t \in Tasks :
        task[t].outcome \in {"DaemonUnavailable", "ContainerNotFound", "LaunchFailure"} =>
            /\ task[t].fault = "none"
            /\ task[t].replies = 1

\* the launch of t fails in this step
LaunchFails(t) == task[t].pc = "launch" /\ task'[t].outcome = "LaunchFailure"

\* C14: when the launch of an admitted invocation fails the session is committed
\* all the same: session.active is true and session.start is the request's
\* timestamp when the invocation ends; a validation failure, which comes before
\* the gate, leaves the session as it was.
C14_CommittedThoughLaunchFails ==
    [][\A t \in Tasks :
          /\ LaunchFails(t) => (session'.active /\ session'.start = task[t].now)
          /\ (task[t].pc = "idle" /\ task'[t].pc = "done") => session' = session]_vars

\* a numeric or bare-word token
IsValueToken(a) == IsNumberToken(a) \/ IsWordToken(a)

\* the value a token stands for, and its runtime type
ValueOf(a) ==
    IF IsNumberToken(a) THEN get_float_from_arg(a)
    ELSE [type |-> "str", neg |-> FALSE, int |-> 0, frac |-> a]

\* token i is a value that stands alone: it is the first token, or follows a
\* value or a double-dash flag
StandsAlone(args, i) ==
    /\ IsValueToken(args[i])
    /\ \/ i = 1
       \/ IsValueToken(args[i - 1])
       \/ StartsWith(args[i - 1], <<"-", "-">>)

\* token i is a value that belongs to the single-dash flag before it
BelongsToFlag(args, i) == IsValueToken(args[i]) /\ ~StandsAlone(args, i)

\* the flag before token i is in the schema and declares the value's type
TypeAgrees(args, i) ==
    /\ Drop(args[i - 1], 1) \in DOMAIN StartArgs
    /\ StartArgs[Drop(args[i - 1], 1)].annotation = ValueOf(args[i]).type

\* the standalone values among the first n tokens, in encounter order
RECURSIVE Positionals(_, _)
Positionals(args, n) ==
    IF n = 0 THEN <<>>
    ELSE IF StandsAlone(args, n) THEN Append(Positionals(args, n - 1), ValueOf(args[n]))
    ELSE Positionals(args, n - 1)

\* the flag bindings made by the first n tokens: the last value of every flag
Bindings(args, n) ==
    LET bound == {i \in 1..n : BelongsToFlag(args, i)}
    IN  [f \in {args[i - 1] : i \in bound} |->
            LET last == CHOOSE i \in bound :
                            args[i - 1] = f /\ \A j \in bound : args[j - 1] = f => j <= i
            IN  ValueOf(args[last])]

\* C15: a numeric or bare-word token is collected as a standalone positional, in
\* encounter order, exactly when it is the first token or follows a value or a
\* double-dash flag; otherwise it is bound to the single-dash flag before it,
\* which is then in the schema with the value's type; a type mismatch gives the
\* FlagTypeMismatch result, citing that flag, and no binding.
C15_PositionalOrBound ==
    /\ vres.kind = "ok" =>
         /\ vres.stack = Positionals(vargs, Len(vargs))
         /\ vres.kwargs = Bindings(vargs, Len(vargs))
         /\ \A i \in 1..Len(vargs) : BelongsToFlag(vargs, i) => TypeAgrees(vargs, i)
    /\ vres.kind = "FlagTypeMismatch" =>
         \E i \in 2..Len(vargs) :
             /\ BelongsToFlag(vargs, i) /\ ~TypeAgrees(vargs, i)
             /\ \A j \in 1..(i - 1) : BelongsToFlag(vargs, j) => TypeAgrees(vargs, j)
             /\ vres.word = vargs[i - 1]
             /\ vres.stack = Positionals(vargs, i - 1)
             /\ vres.kwargs = Bindings(vargs, i - 1)

\* C15 witness: -alloc 1.5 validated with 1.5 bound to -alloc and nothing
\* collected as a positional.
C15_Witness ==
    /\ vres.kind = "ok" /\ vargs = <<T_alloc, T_num>>
    /\ vres.stack = <<>>
    /\ DOMAIN vres.kwargs = {T_alloc} /\ vres.kwargs[T_alloc] = ValueOf(T_num)

\* a token outside the three forms: not numeric, not alphabetic, not a flag
\* over its whole length
OutsideForms(a) == ~IsNumberToken(a) /\ ~IsWordToken(a) /\ ~IsFlagToken(a)

\* C16: a token that is not numeric (at most one minus sign, leading, and at
\* most one decimal point), not alphabetic and not a flag over its whole length
\* makes _validate_usr_args return the MalformedToken error that cites it, when
\* the guards pass and the tokens before it validate.
C16_MalformedRejected ==
    LET m == FirstWhere(vargs, OutsideForms)
    IN  (/\ vres.kind # "none"
         /\ m # 0
         /\ \A i \in 1..Len(vargs) : ~TooLarge(vargs[i]) /\ ~HasNonAscii(vargs[i])
         /\ validate_usr_args(SubSeq(vargs, 1, m - 1)).kind = "ok") =>
            /\ vres.kind = "MalformedToken"
            /\ vres.word = remove_formatting_from_arg(vargs[m])

\* the stage an invocation is in: validating (as it starts), gate checking,
\* daemon polling and listing, locating, provisioning or launching, committing
StageRank(pc) ==
    CASE pc = "idle" -> 0
      [] pc = "gate" -> 1
      [] pc = "target" -> 2
      [] pc \in {"dockerps", "loop", "sleep"} -> 3
      [] pc = "parse" -> 4
      [] pc = "launch" -> 5
      [] pc = "commit" -> 6
      [] pc = "done" -> 7

\* t acts on the outside world in this step: it launches the daemon, probes it,
\* obtains a listing, creates a directory or launches a process
ActsOutside(t) ==
    \/ task'[t].launches > task[t].launches
    \/ task'[t].probes > task[t].probes
    \/ task'[t].raw # task[t].raw /\ task'[t].raw # <<>>
    \/ cur = t /\ tmpdir' # tmpdir
    \/ task'[t].launched /\ ~task[t].launched

\* the error results of the validator
ValidationErrors == {"TokenTooLarge", "NonAsciiToken", "FlagTypeMismatch", "MalformedToken"}

\* C17: the stages of one invocation occur only in the order validating, gate
\* checking, daemon polling, locating or provisioning, launching; an invocation
\* acts on the outside world only after its validation passed and the gate
\* admitted it, and one whose validation returned an error or whose gate check
\* returned Busy ends in that step, after its one error reply.
C17_StagesInOrder ==
    [][\A t \in Tasks :
          /\ task'[t].pc # task[t].pc => StageRank(task'[t].pc) >= StageRank(task[t].pc)
          /\ ActsOutside(t) =>
                /\ task[t].pc \in {"dockerps", "sleep", "launch"}
                /\ task[t].outcome = "none"
                /\ mock \/ task[t].gap >= threshold
          /\ (task'[t].outcome # task[t].outcome
                /\ task'[t].outcome \in ValidationErrors \cup {"Busy"}) =>
                /\ task[t].pc \in {"idle", "gate"}
                /\ task'[t].pc = "done"
                /\ task'[t].replies = 1 /\ task'[t].fault = "none"
                /\ ~task'[t].launched /\ tmpdir' = tmpdir]_vars

\* C17 witness: after one invocation launched and committed, another was
\* rejected by the gate and ended with its one reply and without a launch.
C17_Witness ==
    \E t, u \in Tasks :
        /\ task[t].outcome = "Busy" /\ task[t].replies = 1 /\ ~task[t].launched
        /\ task[u].outcome = "Started" /\ task[u].launched

\* t leaves the listing stage in this step
LeavesListing(t) == task[t].pc = "parse" /\ task'[t].pc # "parse"

\* t leaves the launching stage in this step
LeavesLaunch(t) == task[t].pc = "launch" /\ task'[t].pc # "launch"

\* C18: an invocation with the tmp bit set creates the next volume slot and
\* launches a new instance whether or not the listing holds a matching
\* container; one without the bit creates no volume slot.
C18_TmpProvisionsRegardless ==
    [][\A t \in Tasks :
          /\ (LeavesListing(t) /\ WantsTmp(task[t].opts)) => task'[t].pc = "launch"
          /\ (LeavesLaunch(t) /\ WantsTmp(task[t].opts)) =>
                tmpdir' = tmpdir \cup {provision(tmpdir).name} /\ tmpdir' # tmpdir
          /\ (LeavesLaunch(t) /\ ~WantsTmp(task[t].opts)) => tmpdir' = tmpdir]_vars

\* t runs the provisioning lines 225-231 in this step
Provisions(t) == cur = t /\ LeavesLaunch(t) /\ WantsTmp(task[t].opts)

\* C19: under every interleaving of the invocations, each provisioning call
\* creates exactly one new slot directory, whose number is greater than every
\* number in the directory, so that no slot is handed out twice or reused; the
\* directory changes in no other step, the scan and the creation being one
\* step of the event loop.
C19_OneFreshSlotPerCall ==
    [][/\ \A t \in Tasks : Provisions(t) =>
             \E n \in 1..(MaxSlot + 11) :
                 /\ SlotName(n) \notin tmpdir
                 /\ tmpdir' = tmpdir \cup {SlotName(n)}
                 /\ \A m \in SlotNumbers(tmpdir) : m < n
       /\ tmpdir' # tmpdir => \E t \in Tasks : Provisions(t)]_vars

\* C19 witness: two provisioning invocations have created tmp-mc-1 and tmp-mc-2.
C19_Witness ==
    /\ tmpdir = {SlotName(1), SlotName(2)}
    /\ \A t \in Tasks : task[t].pc = "done"

\* C20: session.start never decreases: with the requests arriving in the order
\* of their timestamps, every write to session.start stores a value greater
\* than or equal to the one it replaces, under every interleaving of the
\* invocations at the poller's sleep.
C20_SessionStartMonotonic ==
    [][session'.start >= session.start]_vars

====
